---- MODULE Spec2Model ----
(***************************************************************************)
(* Model of PlategaGateway                                                 *)
(* (src/src/infrastructure/payment_gateways/platega.py): construction,     *)
(* handle_create_payment and handle_webhook, run by concurrent tasks on    *)
(* one adapter.                                                            *)
(*                                                                         *)
(* Text is a sequence of one-character strings, so that parsing and        *)
(* formatting are computed character by character.                         *)
(***************************************************************************)
EXTENDS Integers, Sequences, FiniteSets, TLC

\* ------------------------------------------------------------------------
\* Bounds of the model
\* ------------------------------------------------------------------------

\* number of different values uuid.uuid4() may draw for an order id
MaxOrderIds == 2

\* the tasks that call the adapter concurrently
Tasks == {"t1", "t2"}

\* ------------------------------------------------------------------------
\* Program constants
\* ------------------------------------------------------------------------

\* PlategaGateway.DEFAULT_PAYMENT_METHOD
DEFAULT_PAYMENT_METHOD == 2

\* PlategaGateway.API_BASE ("https://app.platega.io")
API_BASE == <<"h", "t", "t", "p", "s", ":", "/", "/", "a", "p", "p", ".",
              "p", "l", "a", "t", "e", "g", "a", ".", "i", "o">>

\* ------------------------------------------------------------------------
\* Text helpers (Python str operations used by uuid.UUID and str())
\* ------------------------------------------------------------------------

Rep(c, n) == [i \in 1..n |-> c]

HexLower == <<"0", "1", "2", "3", "4", "5", "6", "7", "8", "9",
              "a", "b", "c", "d", "e", "f">>

HexUpper == <<"0", "1", "2", "3", "4", "5", "6", "7", "8", "9",
              "A", "B", "C", "D", "E", "F">>

IsHexChar(c) == \E i \in 1..16 : HexLower[i] = c \/ HexUpper[i] = c

\* value 0..15 of a hexadecimal digit, either case
HexVal(c) == (CHOOSE i \in 1..16 : HexLower[i] = c \/ HexUpper[i] = c) - 1

\* str.replace(pat, ""): every non-overlapping occurrence, left to right
RECURSIVE RemoveAll(_, _)
RemoveAll(s, pat) ==
    IF Len(s) < Len(pat) THEN s
    ELSE IF SubSeq(s, 1, Len(pat)) = pat
         THEN RemoveAll(SubSeq(s, Len(pat) + 1, Len(s)), pat)
         ELSE <<Head(s)>> \o RemoveAll(Tail(s), pat)

RECURSIVE LStrip(_, _)
LStrip(s, chars) ==
    IF s # <<>> /\ Head(s) \in chars THEN LStrip(Tail(s), chars) ELSE s

RECURSIVE RStrip(_, _)
RStrip(s, chars) ==
    IF s # <<>> /\ s[Len(s)] \in chars
    THEN RStrip(SubSeq(s, 1, Len(s) - 1), chars)
    ELSE s

\* str.strip(chars)
Strip(s, chars) == RStrip(LStrip(s, chars), chars)

IsDash(c) == c = "-"

NotDash(c) == ~IsDash(c)

\* ------------------------------------------------------------------------
\* uuid.UUID
\* ------------------------------------------------------------------------

\* A UUID value is its 128-bit integer, kept as 32 hexadecimal digit values.
UUID_LEN == 32

\* the text left after UUID(hex) has removed "urn:", "uuid:", braces, dashes
UUIDHex(text) ==
    SelectSeq(Strip(RemoveAll(RemoveAll(text, <<"u", "r", "n", ":">>),
                              <<"u", "u", "i", "d", ":">>),
                    {"{", "}"}),
              NotDash)

\* UUID(text) succeeds: 32 characters are left and all are hexadecimal
UUIDValid(text) ==
    LET hex == UUIDHex(text)
    IN  /\ Len(hex) = UUID_LEN
        /\ \A i \in 1..UUID_LEN : IsHexChar(hex[i])

\* UUID(text) for a text it accepts
UUID(text) ==
    LET hex == UUIDHex(text)
    IN  [i \in 1..UUID_LEN |-> HexVal(hex[i])]

\* str(UUID): lower-case digits in groups of 8-4-4-4-12
UUIDStr(u) ==
    LET h == [i \in 1..UUID_LEN |-> HexLower[u[i] + 1]]
    IN  SubSeq(h, 1, 8) \o <<"-">> \o SubSeq(h, 9, 12) \o <<"-">>
        \o SubSeq(h, 13, 16) \o <<"-">> \o SubSeq(h, 17, 20) \o <<"-">>
        \o SubSeq(h, 21, 32)

\* the values uuid.uuid4() may return: version nibble 4, variant nibble 8
Uuid4Values ==
    { [i \in 1..UUID_LEN |-> IF i = 13 THEN 4 ELSE IF i = 17 THEN 8 ELSE d] :
        d \in 1..MaxOrderIds }

\* ------------------------------------------------------------------------
\* Values
\* ------------------------------------------------------------------------

\* an optional text: a header that may be absent, a setting that may be None
None == [some |-> FALSE, s |-> <<>>]

Some(text) == [some |-> TRUE, s |-> text]

\* Python truth value of an optional text: None and "" are false
TruthyOpt(o) == o.some /\ o.s # <<>>

\* a value read from a JSON object with dict.get: None (key absent or
\* null), a string or a number
Absent == [t |-> "absent", s |-> <<>>, n |-> 0]

JStr(text) == [t |-> "str", s |-> text, n |-> 0]

JNum(k) == [t |-> "num", s |-> <<>>, n |-> k]

\* Python truth value of such a value: None, "" and 0 are false
Truthy(v) == (v.t = "str" /\ v.s # <<>>) \/ (v.t = "num" /\ v.n # 0)

RECURSIVE Digits(_)
Digits(k) ==
    IF k < 10 THEN <<HexLower[k + 1]>>
    ELSE Digits(k \div 10) \o <<HexLower[(k % 10) + 1]>>

\* str(v) of a string or a non-negative number
PyStr(v) == IF v.t = "str" THEN v.s ELSE Digits(v.n)

\* ------------------------------------------------------------------------
\* Settings and construction
\* ------------------------------------------------------------------------

MerchantId == <<"m", "1">>

ApiSecret == <<"s", "1">>

ContentTypeJson == <<"a", "p", "p", "l", "i", "c", "a", "t", "i", "o", "n",
                     "/", "j", "s", "o", "n">>

\* the gateway records the adapter may be constructed with
Gateways ==
    [variant : {"PlategaGatewaySettingsDto", "OtherGatewaySettingsDto"},
     merchant_id : {None, Some(<<>>), Some(MerchantId)},
     api_secret : {None, Some(<<>>), Some(ApiSecret)}]

NoGateway == [variant |-> "none", merchant_id |-> None, api_secret |-> None]

NoClient ==
    [exists |-> FALSE, base_url |-> <<>>,
     headers |-> [XMerchantId |-> None, XSecret |-> None, ContentType |-> None]]

\* self._make_client(base_url=..., headers=...)
make_client(base_url, headers) ==
    [exists |-> TRUE, base_url |-> base_url, headers |-> headers]

\* __init__ without the test of api_secret
init_without_secret_check(settings) ==
    IF settings.variant # "PlategaGatewaySettingsDto"
    THEN [error |-> "TypeError", client |-> NoClient]
    ELSE IF ~TruthyOpt(settings.merchant_id)
    THEN [error |-> "ValueError", client |-> NoClient]
    ELSE [error |-> "none",
          client |-> make_client(API_BASE,
                         [XMerchantId |-> settings.merchant_id,
                          XSecret |-> settings.api_secret,
                          ContentType |-> Some(ContentTypeJson)])]

\* PlategaGateway.__init__ after super().__init__ has stored the gateway
\* record: the error it raises ("none" when it returns) and self._client
PlategaGateway_init(settings) ==
    IF settings.variant # "PlategaGatewaySettingsDto"
    THEN [error |-> "TypeError", client |-> NoClient]
    ELSE IF ~TruthyOpt(settings.merchant_id) \/ ~TruthyOpt(settings.api_secret)
    THEN [error |-> "ValueError", client |-> NoClient]
    ELSE [error |-> "none",
          client |-> make_client(API_BASE,
                         [XMerchantId |-> settings.merchant_id,
                          XSecret |-> settings.api_secret,
                          ContentType |-> Some(ContentTypeJson)])]

\* ------------------------------------------------------------------------
\* Errors and results of a call
\* ------------------------------------------------------------------------

\* what the provider answered to the POST; arrived = FALSE when the POST
\* itself failed (no response)
NoBody == [form |-> "none", transactionId |-> Absent, redirect |-> Absent]

NoResponse == [arrived |-> FALSE, code |-> 0, body |-> NoBody]

NoError == [type |-> "none", msg |-> "", response |-> NoResponse]

Error(type, msg) == [type |-> type, msg |-> msg, response |-> NoResponse]

\* httpx.HTTPStatusError keeps the response (status code and body)
HTTPStatusError(resp) ==
    [type |-> "HTTPStatusError", msg |-> "", response |-> resp]

NoResult ==
    [kind |-> "none", error |-> NoError, id |-> <<>>, status |-> "none",
     url |-> <<>>]

Raise(err) == [NoResult EXCEPT !.kind = "raise", !.error = err]

\* the tuple (transaction_id, transaction_status) of handle_webhook
ReturnOutcome(id, status) ==
    [NoResult EXCEPT !.kind = "return", !.id = id, !.status = status]

\* PaymentResult(id=..., url=...)
PaymentResult(id, url) ==
    [NoResult EXCEPT !.kind = "return", !.id = id, !.url = url]

\* ------------------------------------------------------------------------
\* handle_webhook
\* ------------------------------------------------------------------------

CONFIRMED == <<"C", "O", "N", "F", "I", "R", "M", "E", "D">>

CANCELED == <<"C", "A", "N", "C", "E", "L", "E", "D">>

PENDING == <<"P", "E", "N", "D", "I", "N", "G">>

\* _verify_webhook_headers without the comparison of X-Secret
verify_merchant_id_only(settings, request) ==
    LET received_merchant_id == request.headers.XMerchantId
        received_secret == request.headers.XSecret
        expected_merchant_id == settings.merchant_id
        expected_secret == settings.api_secret
        merchant_id_valid == received_merchant_id = expected_merchant_id
        secret_valid == received_secret = expected_secret
    IN  IF ~TruthyOpt(received_merchant_id) \/ ~TruthyOpt(received_secret)
        THEN [ok |-> FALSE, log |-> "warning"]
        ELSE IF ~merchant_id_valid
        THEN [ok |-> FALSE, log |-> "critical"]
        ELSE [ok |-> TRUE, log |-> "none"]

\* _verify_webhook_headers: whether the headers verify and the level of the
\* log entry written ("none" when nothing is logged)
_verify_webhook_headers(settings, request) ==
    LET received_merchant_id == request.headers.XMerchantId
        received_secret == request.headers.XSecret
        expected_merchant_id == settings.merchant_id
        expected_secret == settings.api_secret
        merchant_id_valid == received_merchant_id = expected_merchant_id
        secret_valid == received_secret = expected_secret
    IN  IF ~TruthyOpt(received_merchant_id) \/ ~TruthyOpt(received_secret)
        THEN [ok |-> FALSE, log |-> "warning"]
        ELSE IF ~merchant_id_valid \/ ~secret_valid
        THEN [ok |-> FALSE, log |-> "critical"]
        ELSE [ok |-> TRUE, log |-> "none"]

\* the match statement with the two accepted statuses exchanged
match_status_swapped(status) ==
    IF status = JStr(CONFIRMED) THEN [ok |-> TRUE, status |-> "CANCELED", msg |-> ""]
    ELSE IF status = JStr(CANCELED) THEN [ok |-> TRUE, status |-> "COMPLETED", msg |-> ""]
    ELSE IF status = JStr(PENDING)
    THEN [ok |-> FALSE, status |-> "none", msg |-> "Unexpected PENDING status in webhook"]
    ELSE [ok |-> FALSE, status |-> "none", msg |-> "Unsupported status"]

\* the match statement with PENDING mapped to a status instead of raising
match_status_pending(status) ==
    IF status = JStr(CONFIRMED) THEN [ok |-> TRUE, status |-> "COMPLETED", msg |-> ""]
    ELSE IF status = JStr(CANCELED) THEN [ok |-> TRUE, status |-> "CANCELED", msg |-> ""]
    ELSE IF status = JStr(PENDING)
    THEN [ok |-> TRUE, status |-> "PENDING", msg |-> ""]
    ELSE [ok |-> FALSE, status |-> "none", msg |-> "Unsupported status"]

\* the match statement of handle_webhook: the internal status, or the
\* ValueError raised
match_status(status) ==
    IF status = JStr(CONFIRMED) THEN [ok |-> TRUE, status |-> "COMPLETED", msg |-> ""]
    ELSE IF status = JStr(CANCELED) THEN [ok |-> TRUE, status |-> "CANCELED", msg |-> ""]
    ELSE IF status = JStr(PENDING)
    THEN [ok |-> FALSE, status |-> "none", msg |-> "Unexpected PENDING status in webhook"]
    ELSE [ok |-> FALSE, status |-> "none", msg |-> "Unsupported status"]

\* handle_webhook mapping the status before it tests the id
webhook_data_status_first(webhook_data) ==
    LET transaction_id_str == webhook_data.id
        status == webhook_data.status
        m == match_status(status)
    IN  IF ~m.ok
        THEN [result |-> Raise(Error("ValueError", m.msg)), logs |-> <<>>]
        ELSE IF ~Truthy(transaction_id_str)
        THEN [result |-> Raise(Error("ValueError",
                             "Required field 'id' is missing in webhook payload")),
              logs |-> <<>>]
        ELSE IF transaction_id_str.t # "str"
        THEN [result |-> Raise(Error("AttributeError", "no attribute 'replace'")),
              logs |-> <<>>]
        ELSE IF ~UUIDValid(transaction_id_str.s)
        THEN [result |-> Raise(Error("ValueError",
                             "badly formed hexadecimal UUID string")),
              logs |-> <<>>]
        ELSE [result |-> ReturnOutcome(UUID(transaction_id_str.s), m.status),
              logs |-> <<"info">>]

\* handle_webhook from the point where _get_webhook_data has returned the
\* parsed body: the result and the log entries written
webhook_data_outcome(webhook_data) ==
    LET transaction_id_str == webhook_data.id
        status == webhook_data.status
        m == match_status(status)
    IN  IF ~Truthy(transaction_id_str)
        THEN [result |-> Raise(Error("ValueError",
                             "Required field 'id' is missing in webhook payload")),
              logs |-> <<>>]
        ELSE IF transaction_id_str.t # "str"
        THEN [result |-> Raise(Error("AttributeError", "no attribute 'replace'")),
              logs |-> <<>>]
        ELSE IF ~UUIDValid(transaction_id_str.s)
        THEN [result |-> Raise(Error("ValueError",
                             "badly formed hexadecimal UUID string")),
              logs |-> <<>>]
        ELSE IF ~m.ok
        THEN [result |-> Raise(Error("ValueError", m.msg)), logs |-> <<>>]
        ELSE [result |-> ReturnOutcome(UUID(transaction_id_str.s), m.status),
              logs |-> <<"info">>]

\* _get_webhook_data (base class): the JSON body parsed, or a failure for a
\* body that is not JSON
_get_webhook_data(request) ==
    IF request.body.form = "malformed"
    THEN [ok |-> FALSE, data |-> request.body]
    ELSE [ok |-> TRUE, data |-> request.body]

\* ------------------------------------------------------------------------
\* handle_create_payment
\* ------------------------------------------------------------------------

PaymentAmount == <<"1", "0", ".", "0", "0">>

PaymentDetails == <<"o", "r", "d", "e", "r">>

Currency == <<"R", "U", "B">>

BotRedirectUrl == <<"t", ".", "m", "e", "/", "b">>

NoPayload ==
    [paymentMethod |-> 0, amount |-> <<>>, currency |-> <<>>,
     description |-> <<>>, return |-> <<>>, failedUrl |-> <<>>,
     payload |-> <<>>]

\* _create_payment_payload once _get_bot_redirect_url has returned
_create_payment_payload(amount, order_id, description, return_url) ==
    [paymentMethod |-> DEFAULT_PAYMENT_METHOD,
     amount |-> amount,
     currency |-> Currency,
     description |-> description,
     return |-> return_url,
     failedUrl |-> return_url,
     payload |-> order_id]

\* a status test that lets 1xx and 3xx responses through
is_success_below_400(code) == code < 400

\* httpx Response.is_success, which raise_for_status tests
is_success(code) == 200 <= code /\ code <= 299

\* _get_payment_data testing redirect before transactionId
get_payment_data_redirect_first(data, order_id) ==
    LET transaction_id_str == data.transactionId
        redirect_url == data.redirect
    IN  IF data.form # "object"
        THEN [result |-> Raise(Error("AttributeError", "no attribute 'get'")),
              logs |-> <<"debug">>]
        ELSE IF ~Truthy(redirect_url)
        THEN [result |-> Raise(Error("KeyError", "missing 'redirect'")),
              logs |-> <<"debug">>]
        ELSE IF ~Truthy(transaction_id_str)
        THEN [result |-> Raise(Error("KeyError", "missing 'transactionId'")),
              logs |-> <<"debug">>]
        ELSE IF transaction_id_str.t # "str"
        THEN [result |-> Raise(Error("AttributeError", "no attribute 'replace'")),
              logs |-> <<"debug">>]
        ELSE IF ~UUIDValid(transaction_id_str.s)
        THEN [result |-> Raise(Error("ValueError",
                             "badly formed hexadecimal UUID string")),
              logs |-> <<"debug">>]
        ELSE [result |-> PaymentResult(UUID(transaction_id_str.s),
                                       PyStr(redirect_url)),
              logs |-> <<"debug">>]

\* _get_payment_data returning the generated order id as the payment id
get_payment_data_order_id(data, order_id) ==
    LET transaction_id_str == data.transactionId
        redirect_url == data.redirect
    IN  IF data.form # "object"
        THEN [result |-> Raise(Error("AttributeError", "no attribute 'get'")),
              logs |-> <<"debug">>]
        ELSE IF ~Truthy(transaction_id_str)
        THEN [result |-> Raise(Error("KeyError", "missing 'transactionId'")),
              logs |-> <<"debug">>]
        ELSE IF ~Truthy(redirect_url)
        THEN [result |-> Raise(Error("KeyError", "missing 'redirect'")),
              logs |-> <<"debug">>]
        ELSE IF transaction_id_str.t # "str"
        THEN [result |-> Raise(Error("AttributeError", "no attribute 'replace'")),
              logs |-> <<"debug">>]
        ELSE IF ~UUIDValid(transaction_id_str.s)
        THEN [result |-> Raise(Error("ValueError",
                             "badly formed hexadecimal UUID string")),
              logs |-> <<"debug">>]
        ELSE [result |-> PaymentResult(UUID(order_id),
                                       PyStr(redirect_url)),
              logs |-> <<"debug">>]

\* _get_payment_data: the PaymentResult or the error raised, and the log
\* entries written
_get_payment_data(data, order_id) ==
    LET transaction_id_str == data.transactionId
        redirect_url == data.redirect
    IN  IF data.form # "object"
        THEN [result |-> Raise(Error("AttributeError", "no attribute 'get'")),
              logs |-> <<"debug">>]
        ELSE IF ~Truthy(transaction_id_str)
        THEN [result |-> Raise(Error("KeyError", "missing 'transactionId'")),
              logs |-> <<"debug">>]
        ELSE IF ~Truthy(redirect_url)
        THEN [result |-> Raise(Error("KeyError", "missing 'redirect'")),
              logs |-> <<"debug">>]
        ELSE IF transaction_id_str.t # "str"
        THEN [result |-> Raise(Error("AttributeError", "no attribute 'replace'")),
              logs |-> <<"debug">>]
        ELSE IF ~UUIDValid(transaction_id_str.s)
        THEN [result |-> Raise(Error("ValueError",
                             "badly formed hexadecimal UUID string")),
              logs |-> <<"debug">>]
        ELSE [result |-> PaymentResult(UUID(transaction_id_str.s),
                                       PyStr(redirect_url)),
              logs |-> <<"debug">>]

\* the body of the try block once the POST has completed: the result, the
\* log entries written and whether response.content was parsed
try_block(response, order_id) ==
    IF ~response.arrived
    THEN [result |-> Raise(Error("ConnectError", "")), logs |-> <<>>,
          parsed |-> FALSE]
    ELSE IF ~is_success(response.code)
    THEN [result |-> Raise(HTTPStatusError(response)), logs |-> <<>>,
          parsed |-> FALSE]
    ELSE IF response.body.form = "malformed"
    THEN [result |-> Raise(Error("JSONDecodeError", "")), logs |-> <<>>,
          parsed |-> TRUE]
    ELSE LET p == _get_payment_data(response.body, order_id)
         IN  [result |-> p.result, logs |-> p.logs, parsed |-> TRUE]

\* the except clauses of handle_create_payment: the level the error is
\* logged at and the error re-raised by the bare raise
except_clause(err) ==
    IF err.type = "HTTPStatusError"
    THEN [log |-> "error", raised |-> err]
    ELSE IF err.type \in {"KeyError", "JSONDecodeError"}
    THEN [log |-> "error", raised |-> err]
    ELSE [log |-> "exception", raised |-> err]

\* handle_create_payment from the point where the POST has completed
create_payment_outcome(response, order_id) ==
    LET t == try_block(response, order_id)
    IN  IF t.result.kind = "raise"
        THEN LET e == except_clause(t.result.error)
             IN  [result |-> Raise(e.raised), logs |-> t.logs \o <<e.log>>,
                  parsed |-> t.parsed]
        ELSE t

\* ------------------------------------------------------------------------
\* Inputs: webhook requests and provider responses
\* ------------------------------------------------------------------------

\* the first value uuid4() may draw, as the provider may echo it back
FirstOrderId == UUIDStr(CHOOSE u \in Uuid4Values : u[1] = 1)

\* an accepted spelling that is not the canonical one: braces, upper case
UuidBraced == <<"{">> \o Rep("A", 32) \o <<"}">>

\* rejected for its length
BadShort == <<"x">>

\* 32 characters, rejected for not being hexadecimal
BadDigits == Rep("g", 32)

IdValues ==
    {Absent, JStr(<<>>), JStr(FirstOrderId), JStr(UuidBraced),
     JStr(BadShort), JStr(BadDigits), JNum(7)}

StatusValues ==
    {Absent, JStr(CONFIRMED), JStr(CANCELED), JStr(PENDING),
     JStr(<<"F", "O", "O">>)}

HeaderValues == {None, Some(<<>>), Some(MerchantId), Some(ApiSecret)}

MalformedWebhookBody == [form |-> "malformed", id |-> Absent, status |-> Absent]

WebhookBodies ==
    {MalformedWebhookBody} \cup [form : {"object"}, id : IdValues, status : StatusValues]

WebhookRequests ==
    [headers : [XMerchantId : HeaderValues, XSecret : HeaderValues],
     body : WebhookBodies]

NoRequest ==
    [headers |-> [XMerchantId |-> None, XSecret |-> None],
     body |-> [form |-> "none", id |-> Absent, status |-> Absent]]

PayUrl == <<"p", "a", "y", ".", "e", "x", "/", "x">>

RedirectValues == {Absent, JStr(<<>>), JStr(PayUrl), JNum(7)}

ResponseBodies ==
    {[form |-> "malformed", transactionId |-> Absent, redirect |-> Absent],
     [form |-> "nonobject", transactionId |-> Absent, redirect |-> Absent]}
    \cup [form : {"object"}, transactionId : IdValues, redirect : RedirectValues]

StatusCodes == {200, 201, 302, 402}

Responses ==
    {NoResponse} \cup [arrived : {TRUE}, code : StatusCodes, body : ResponseBodies]

\* ------------------------------------------------------------------------
\* State
\* ------------------------------------------------------------------------

VARIABLES
    gateway,    \* settings of the gateway record given to the constructor
    ctor,       \* "new", "ok", or the error __init__ raised
    data,       \* self.data.settings
    client,     \* self._client
    call        \* per task: the call it is running on the adapter

vars == <<gateway, ctor, data, client, call>>

IdleCall ==
    [pc |-> "idle", op |-> "none", request |-> NoRequest, order_id |-> <<>>,
     payload |-> NoPayload, response |-> NoResponse, result |-> NoResult,
     logs |-> <<>>, posts |-> 0, body_read |-> FALSE, parsed |-> FALSE]

\* A finished call stays visible, with its result, until its caller takes
\* it (Return); a call finishes only when no other finished call is waiting
\* to be taken.  Return touches nothing but its own task, so every order of
\* the steps that read or write the adapter is still taken.
NoneDone == \A u \in Tasks : call[u].pc # "done"

Init ==
    /\ gateway \in Gateways
    /\ ctor = "new"
    /\ data = NoGateway
    /\ client = NoClient
    /\ call = [t \in Tasks |-> IdleCall]

\* PlategaGateway(gateway, bot, config)
Construct ==
    /\ ctor = "new"
    /\ data' = gateway
    /\ client' = PlategaGateway_init(gateway).client
    /\ ctor' = IF PlategaGateway_init(gateway).error = "none" THEN "ok"
               ELSE PlategaGateway_init(gateway).error
    /\ UNCHANGED <<gateway, call>>

\* handle_webhook storing the received X-MerchantId in the settings
WebhookStart_storing(t) ==
    /\ ctor = "ok"
    /\ call[t].pc = "idle"
    /\ \E request \in WebhookRequests :
         LET v == _verify_webhook_headers(data, request)
         IN  /\ v.ok \/ NoneDone
             /\ data' = [data EXCEPT !.merchant_id = request.headers.XMerchantId]
             /\ call' = [call EXCEPT ![t] =
                   IF ~v.ok
                   THEN [IdleCall EXCEPT
                           !.pc = "done", !.op = "webhook", !.request = request,
                           !.logs = <<"debug", v.log>>,
                           !.result = Raise(Error("PermissionError",
                               "Platega webhook verification failed: invalid headers"))]
                   ELSE [IdleCall EXCEPT
                           !.pc = "wh_body", !.op = "webhook", !.request = request,
                           !.logs = <<"debug">>]]
    /\ UNCHANGED <<gateway, ctor, client>>

\* handle_webhook up to the await of _get_webhook_data
WebhookStart(t) ==
    /\ ctor = "ok"
    /\ call[t].pc = "idle"
    /\ \E request \in WebhookRequests :
         LET v == _verify_webhook_headers(data, request)
         IN  /\ v.ok \/ NoneDone
             /\ call' = [call EXCEPT ![t] =
                   IF ~v.ok
                   THEN [IdleCall EXCEPT
                           !.pc = "done", !.op = "webhook", !.request = request,
                           !.logs = <<"debug", v.log>>,
                           !.result = Raise(Error("PermissionError",
                               "Platega webhook verification failed: invalid headers"))]
                   ELSE [IdleCall EXCEPT
                           !.pc = "wh_body", !.op = "webhook", !.request = request,
                           !.logs = <<"debug">>]]
    /\ UNCHANGED <<gateway, ctor, data, client>>

\* handle_webhook from the completion of _get_webhook_data to its end
WebhookBody(t) ==
    /\ call[t].pc = "wh_body"
    /\ NoneDone
    /\ LET g == _get_webhook_data(call[t].request)
           o == webhook_data_outcome(g.data)
       IN  call' = [call EXCEPT ![t] =
               IF ~g.ok
               THEN [@ EXCEPT !.pc = "done", !.body_read = TRUE,
                              !.result = Raise(Error("PayloadError", ""))]
               ELSE [@ EXCEPT !.pc = "done", !.body_read = TRUE,
                              !.result = o.result,
                              !.logs = @ \o o.logs]]
    /\ UNCHANGED <<gateway, ctor, data, client>>

\* handle_create_payment up to the await of _get_bot_redirect_url
CreateStart(t) ==
    /\ ctor = "ok"
    /\ call[t].pc = "idle"
    /\ \E u \in Uuid4Values :
         call' = [call EXCEPT ![t] =
             [IdleCall EXCEPT !.pc = "cp_payload", !.op = "create",
                              !.order_id = UUIDStr(u)]]
    /\ UNCHANGED <<gateway, ctor, data, client>>

\* _get_bot_redirect_url raises: the error leaves handle_create_payment
\* from line 76, outside the try block
CreatePayloadFail(t) ==
    /\ call[t].pc = "cp_payload"
    /\ NoneDone
    /\ call' = [call EXCEPT ![t] =
           [@ EXCEPT !.pc = "done",
                     !.result = Raise(Error("RedirectUrlError", ""))]]
    /\ UNCHANGED <<gateway, ctor, data, client>>

\* _get_bot_redirect_url returns: the payload is built and the POST sent
CreatePost(t) ==
    /\ call[t].pc = "cp_payload"
    /\ call' = [call EXCEPT ![t] =
           [@ EXCEPT !.pc = "cp_post",
                     !.payload = _create_payment_payload(PaymentAmount,
                                     call[t].order_id, PaymentDetails,
                                     BotRedirectUrl),
                     !.posts = @ + 1]]
    /\ UNCHANGED <<gateway, ctor, data, client>>

\* the POST completes: the rest of handle_create_payment
CreateResponse(t) ==
    /\ call[t].pc = "cp_post"
    /\ NoneDone
    /\ \E response \in Responses :
         LET o == create_payment_outcome(response, call[t].order_id)
         IN  call' = [call EXCEPT ![t] =
                 [@ EXCEPT !.pc = "done", !.response = response,
                           !.result = o.result, !.logs = @ \o o.logs,
                           !.parsed = o.parsed]]
    /\ UNCHANGED <<gateway, ctor, data, client>>

\* the caller has received the result or the error; the task is free again
Return(t) ==
    /\ call[t].pc = "done"
    /\ call' = [call EXCEPT ![t] = IdleCall]
    /\ UNCHANGED <<gateway, ctor, data, client>>

Next ==
    \/ Construct
    \/ \E t \in Tasks : WebhookStart(t)
    \/ \E t \in Tasks : WebhookBody(t)
    \/ \E t \in Tasks : CreateStart(t)
    \/ \E t \in Tasks : CreatePayloadFail(t)
    \/ \E t \in Tasks : CreatePost(t)
    \/ \E t \in Tasks : CreateResponse(t)
    \/ \E t \in Tasks : Return(t)

Spec == Init /\ [][Next]_vars

\* ------------------------------------------------------------------------
\* Properties
\* ------------------------------------------------------------------------

\* task t has finished a call of the given operation
Finished(t, op) == call[t].pc = "done" /\ call[t].op = op

\* the request carries both headers, non-empty, equal to the credentials the
\* adapter was constructed with
HeadersMatch(request) ==
    /\ request.headers.XMerchantId.some
    /\ request.headers.XMerchantId.s # <<>>
    /\ request.headers.XMerchantId.s = gateway.merchant_id.s
    /\ request.headers.XSecret.some
    /\ request.headers.XSecret.s # <<>>
    /\ request.headers.XSecret.s = gateway.api_secret.s

PermissionError ==
    Raise(Error("PermissionError",
                "Platega webhook verification failed: invalid headers"))

\* C1: handle_webhook returns an outcome only for a request whose two headers
\* are present and equal the configured credentials; for every other request
\* it raises PermissionError whatever the body is, and the body is read only
\* after the headers have verified.
C1_WebhookRequiresCredentials ==
    \A t \in Tasks :
        /\ call[t].pc = "wh_body" => HeadersMatch(call[t].request)
        /\ Finished(t, "webhook") =>
            /\ call[t].result.kind = "return" => HeadersMatch(call[t].request)
            /\ call[t].body_read => HeadersMatch(call[t].request)
            /\ ~HeadersMatch(call[t].request) =>
                 /\ call[t].result = PermissionError
                 /\ ~call[t].body_read

\* C1 witness: right X-MerchantId, wrong X-Secret, a body that would be
\* accepted; the call has failed with PermissionError.
C1_Witness ==
    \E t \in Tasks :
        /\ Finished(t, "webhook")
        /\ call[t].request.headers.XMerchantId = Some(MerchantId)
        /\ call[t].request.headers.XSecret = Some(MerchantId)
        /\ call[t].request.body =
             [form |-> "object", id |-> JStr(UuidBraced), status |-> JStr(CONFIRMED)]
        /\ call[t].result = PermissionError

\* the body is a JSON object whose id is a string that uuid.UUID accepts
ValidId(body) ==
    /\ body.form = "object"
    /\ body.id.t = "str"
    /\ body.id.s # <<>>
    /\ UUIDValid(body.id.s)

\* C2: with verified headers and a valid UUID string as id, status CONFIRMED
\* gives (UUID(id), COMPLETED) and status CANCELED gives (UUID(id), CANCELED);
\* a returned transaction id is always the one of the request body.
C2_WebhookMapsStatus ==
    \A t \in Tasks :
        Finished(t, "webhook") =>
            LET request == call[t].request
                result == call[t].result
            IN  /\ (HeadersMatch(request) /\ ValidId(request.body)
                      /\ request.body.status = JStr(CONFIRMED))
                     => result = ReturnOutcome(UUID(request.body.id.s), "COMPLETED")
                /\ (HeadersMatch(request) /\ ValidId(request.body)
                      /\ request.body.status = JStr(CANCELED))
                     => result = ReturnOutcome(UUID(request.body.id.s), "CANCELED")
                /\ result.kind = "return" =>
                     /\ ValidId(request.body)
                     /\ result.id = UUID(request.body.id.s)
                     /\ request.body.id.s = FirstOrderId
                          => UUIDStr(result.id) = request.body.id.s

\* C2 witness: a CONFIRMED webhook whose id is spelled with braces and upper
\* case has returned COMPLETED.
C2_Witness ==
    \E t \in Tasks :
        /\ Finished(t, "webhook")
        /\ call[t].request.body.id = JStr(UuidBraced)
        /\ call[t].request.body.status = JStr(CONFIRMED)
        /\ call[t].result.kind = "return"
        /\ call[t].result.status = "COMPLETED"
        /\ UUIDStr(call[t].result.id) = <<"a", "a", "a", "a", "a", "a", "a", "a", "-">>
               \o <<"a", "a", "a", "a", "-", "a", "a", "a", "a", "-">>
               \o <<"a", "a", "a", "a", "-">> \o Rep("a", 12)

\* the body status is neither "CONFIRMED" nor "CANCELED"
OtherStatus(body) ==
    body.form = "object" /\ body.status \notin {JStr(CONFIRMED), JStr(CANCELED)}

\* C3 as stated: every call whose body status is not CONFIRMED or CANCELED
\* fails with ValueError.
C3_Original ==
    \A t \in Tasks :
        (Finished(t, "webhook") /\ OtherStatus(call[t].request.body)) =>
            /\ call[t].result.kind = "raise"
            /\ call[t].result.error.type = "ValueError"

\* C3 amended: a call whose body status is not CONFIRMED or CANCELED never
\* returns an outcome, and the only statuses ever returned are COMPLETED and
\* CANCELED; the error is ValueError when the headers verify and the id is
\* absent, empty or a string (PermissionError when the headers do not verify).
C3_OnlyCompletedOrCanceled ==
    \A t \in Tasks :
        Finished(t, "webhook") =>
            LET request == call[t].request
                result == call[t].result
            IN  /\ OtherStatus(request.body) => result.kind = "raise"
                /\ result.kind = "return" => result.status \in {"COMPLETED", "CANCELED"}
                /\ (OtherStatus(request.body) /\ HeadersMatch(request)
                      /\ request.body.id.t # "num")
                     => result.error.type = "ValueError"
                /\ (OtherStatus(request.body) /\ ~HeadersMatch(request))
                     => result.error.type = "PermissionError"

\* C3 witness: verified headers, a valid id and status PENDING; the call has
\* failed with ValueError.
C3_Witness ==
    \E t \in Tasks :
        /\ Finished(t, "webhook")
        /\ HeadersMatch(call[t].request)
        /\ ValidId(call[t].request.body)
        /\ call[t].request.body.status = JStr(PENDING)
        /\ call[t].result.kind = "raise"
        /\ call[t].result.error.type = "ValueError"

MissingIdError ==
    Raise(Error("ValueError", "Required field 'id' is missing in webhook payload"))

\* C4: with verified headers, a body whose id is absent or empty makes
\* handle_webhook fail with the missing-id ValueError whatever the status is:
\* the id is checked before the status is mapped.
C4_MissingIdFailsFirst ==
    \A t \in Tasks :
        (/\ Finished(t, "webhook")
         /\ HeadersMatch(call[t].request)
         /\ call[t].request.body.form = "object"
         /\ call[t].request.body.id \in {Absent, JStr(<<>>)})
        => call[t].result = MissingIdError

\* C4 witness: verified headers, no id, status PENDING; the error is the
\* missing-id error and not the PENDING one.
C4_Witness ==
    \E t \in Tasks :
        /\ Finished(t, "webhook")
        /\ HeadersMatch(call[t].request)
        /\ call[t].request.body.id = Absent
        /\ call[t].request.body.status = JStr(PENDING)
        /\ call[t].result = MissingIdError

\* the gateway record is of the Platega variant with both credentials set
GoodSettings ==
    /\ gateway.variant = "PlategaGatewaySettingsDto"
    /\ gateway.merchant_id.some /\ gateway.merchant_id.s # <<>>
    /\ gateway.api_secret.some /\ gateway.api_secret.s # <<>>

\* C5: construction fails with TypeError for another settings variant (checked
\* first) and with ValueError for an empty merchant_id or api_secret; the
\* HTTP client, carrying the two credential headers, exists exactly when the
\* variant matches and both credentials are non-empty.
C5_ConstructionValidates ==
    /\ ctor = "new" => ~client.exists
    /\ ctor # "new" =>
        /\ gateway.variant # "PlategaGatewaySettingsDto" => ctor = "TypeError"
        /\ (gateway.variant = "PlategaGatewaySettingsDto" /\ ~GoodSettings)
             => ctor = "ValueError"
        /\ GoodSettings => ctor = "ok"
        /\ client.exists <=> GoodSettings
        /\ client.exists =>
             /\ client.headers.XMerchantId = gateway.merchant_id
             /\ client.headers.XSecret = gateway.api_secret
             /\ client.headers.ContentType = Some(ContentTypeJson)
             /\ client.base_url = API_BASE

\* C5 witness: another settings variant whose merchant_id is empty as well;
\* construction has failed with TypeError and no client exists.
C5_Witness ==
    /\ ctor = "TypeError"
    /\ gateway.variant = "OtherGatewaySettingsDto"
    /\ gateway.merchant_id = Some(<<>>)
    /\ gateway.api_secret = Some(ApiSecret)
    /\ ~client.exists

\* the provider answered 2xx with a JSON object
Success2xx(response) ==
    /\ response.arrived
    /\ response.code \in 200..299
    /\ response.body.form = "object"

\* C6 as stated: every 2xx response with a non-empty transactionId and a
\* non-empty redirect yields a PaymentResult with the parsed id and the
\* redirect as url, and the id is never the generated order id.
C6_Original ==
    \A t \in Tasks :
        (/\ Finished(t, "create")
         /\ Success2xx(call[t].response)
         /\ Truthy(call[t].response.body.transactionId)
         /\ Truthy(call[t].response.body.redirect))
        => /\ call[t].result.kind = "return"
           /\ call[t].result.url = call[t].response.body.redirect.s
           /\ UUIDStr(call[t].result.id) # call[t].order_id

\* the response is one create_payment accepts: transactionId is a string
\* uuid.UUID accepts and redirect is a non-empty string
ValidResponse(response) ==
    /\ Success2xx(response)
    /\ response.body.transactionId.t = "str"
    /\ response.body.transactionId.s # <<>>
    /\ UUIDValid(response.body.transactionId.s)
    /\ response.body.redirect.t = "str"
    /\ response.body.redirect.s # <<>>

\* C6 amended: for every 2xx response whose transactionId is a valid UUID
\* string and whose redirect is a non-empty string, create_payment returns
\* the UUID parsed from transactionId and the redirect unchanged; the order
\* id was sent in the payload field and the returned id differs from it
\* unless the provider returned the order id as transactionId.  Every id
\* returned is the one parsed from the response's transactionId.
C6_ResultFromProvider ==
    \A t \in Tasks :
        Finished(t, "create") =>
            LET response == call[t].response
                result == call[t].result
            IN  /\ ValidResponse(response) =>
                     /\ result.kind = "return"
                     /\ result.id = UUID(response.body.transactionId.s)
                     /\ result.url = response.body.redirect.s
                     /\ call[t].payload.payload = call[t].order_id
                     /\ UUID(response.body.transactionId.s) # UUID(call[t].order_id)
                          => UUIDStr(result.id) # call[t].order_id
                /\ result.kind = "return" =>
                     /\ Success2xx(response)
                     /\ response.body.transactionId.t = "str"
                     /\ result.id = UUID(response.body.transactionId.s)

\* C6 witness: the provider answered 201 with a transactionId in braces and
\* upper case; the call has returned that id and the redirect.
C6_Witness ==
    \E t \in Tasks :
        /\ Finished(t, "create")
        /\ call[t].response.code = 201
        /\ call[t].response.body.transactionId = JStr(UuidBraced)
        /\ call[t].result.kind = "return"
        /\ call[t].result.id = [i \in 1..32 |-> 10]
        /\ call[t].result.url = PayUrl
        /\ UUIDStr(call[t].result.id) # call[t].order_id

\* C7: for every non-2xx response create_payment returns nothing and raises
\* the HTTPStatusError that carries that response (status code and body);
\* the body is not parsed and exactly one POST was sent.
C7_Non2xxPropagates ==
    \A t \in Tasks :
        (/\ Finished(t, "create")
         /\ call[t].response.arrived
         /\ call[t].response.code \notin 200..299)
        => /\ call[t].result = Raise(HTTPStatusError(call[t].response))
           /\ call[t].result.error.response.code = call[t].response.code
           /\ call[t].result.error.response.body = call[t].response.body
           /\ ~call[t].parsed
           /\ call[t].posts = 1

\* C7 witness: the provider answered 302 with a body that would be accepted;
\* the call has failed with HTTPStatusError after one POST.
C7_Witness ==
    \E t \in Tasks :
        /\ Finished(t, "create")
        /\ call[t].response.code = 302
        /\ call[t].response.body =
             [form |-> "object", transactionId |-> JStr(FirstOrderId),
              redirect |-> JStr(PayUrl)]
        /\ call[t].result.error.type = "HTTPStatusError"
        /\ call[t].posts = 1

C9_EveryFailureLogged ==
    \A t \in Tasks :
        (Finished(t, "create") /\ call[t].result.kind = "raise")
        => \E i \in 1..Len(call[t].logs) : call[t].logs[i] \in {"error", "exception"}

\* handle_webhook run alone on a request, by an adapter with the settings it
\* was constructed with
WebhookAlone(request) ==
    IF ~_verify_webhook_headers(gateway, request).ok THEN PermissionError
    ELSE IF ~_get_webhook_data(request).ok THEN Raise(Error("PayloadError", ""))
    ELSE webhook_data_outcome(_get_webhook_data(request).data).result

\* handle_create_payment run alone with the same order id and response
CreateAlone(response, order_id, posts) ==
    IF posts = 0 THEN Raise(Error("RedirectUrlError", ""))
    ELSE create_payment_outcome(response, order_id).result

\* every finished call has the result it has when run alone, and the adapter
\* is as construction left it
Independent ==
    ctor = "ok" =>
        /\ data = gateway
        /\ client = PlategaGateway_init(gateway).client
        /\ \A t \in Tasks :
             /\ Finished(t, "webhook") => call[t].result = WebhookAlone(call[t].request)
             /\ Finished(t, "create") =>
                  call[t].result = CreateAlone(call[t].response, call[t].order_id,
                                               call[t].posts)

\* C10: once constructed, no step of any call changes the settings, the
\* credentials or the HTTP client, and under every interleaving each call
\* ends with the result it has when run alone.
C10_NoSharedStateWritten ==
    /\ []Independent
    /\ [][ctor = "ok" => (data' = data /\ client' = client /\ ctor' = ctor)]_vars

\* C10 witness: a create_payment call is waiting for the provider while a
\* webhook call on the same adapter has returned an outcome.
C10_Witness ==
    \E t, u \in Tasks :
        /\ t # u
        /\ call[t].pc = "cp_post"
        /\ Finished(u, "webhook")
        /\ call[u].result.kind = "return"
        /\ data = gateway

====
